---- MODULE Spec2Model ----
(***************************************************************************)
(* SoulTalk backend: the authentication and session-management core.       *)
(* Every action is one HTTP request handled inside one database            *)
(* transaction: the handler of app/api, the AuthService / UserService      *)
(* calls it makes, and the commit or rollback that ends the request.       *)
(***************************************************************************)
EXTENDS Integers, Sequences, FiniteSets, TLC

(***************************************************************************)
(* Bounds of the model.                                                    *)
(***************************************************************************)
MaxUsers == 2
MaxSessions == 2
MaxVerifications == 2
MaxAdvances == 1
\* requests in flight at once, and refresh_tokens rows, where requests interleave
MaxInflight == 2
MaxRaceSessions == 3

(***************************************************************************)
(* Program constants (app/core/config.py).                                 *)
(***************************************************************************)
ACCESS_TOKEN_EXPIRE_MINUTES == 15
REFRESH_TOKEN_EXPIRE_DAYS == 30
PASSWORD_RESET_EXPIRE_HOURS == 1
OTP_EXPIRE_MINUTES == 10
MinutesPerDay == 1440
MinutesPerHour == 60
SecondsPerMinute == 60

(***************************************************************************)
(* Inputs.  Emails as clients type them; the local part keeps its case.    *)
(***************************************************************************)
NoEmail == ""
RawEmails == {"a@x.com", "A@x.com", "b@x.com"}
Passwords == {"P@ssw0rd1", "N3w!Passw"}
OtpCodes == {111111, 222222}
GoogleIds == {"g1", "g2"}
FacebookIds == {"f1"}
SocialProviders == {"google", "facebook"}
ProviderEnum == {"google", "facebook", "email"}
ProviderNames == ProviderEnum \cup {"twitter"}

\* str.lower() on the emails above
Lower(e) == IF e = "A@x.com" THEN "a@x.com" ELSE e

ProviderIds(p) == IF p = "google" THEN GoogleIds ELSE FacebookIds

(***************************************************************************)
(* Credential hasher (bcrypt through passlib): a salted digest.  bcrypt    *)
(* draws the salt at random; the model takes the salt that differs from    *)
(* the salt of the digest being replaced, so a re-hash is a new digest.    *)
(***************************************************************************)
NoHash == <<"none", 0, "">>
FreshSalt(old) == 1 - old[2]
hash_password(password, salt) == <<"bcrypt", salt, password>>
verify_password(plain, hashed) == hashed[1] = "bcrypt" /\ hashed[3] = plain

(***************************************************************************)
(* Token codec.  A raw secret is <<kind, n>>: a refresh token "rt", a      *)
(* password-reset token "rst", a numeric one-time code "otp".              *)
(***************************************************************************)
NoToken == <<"none", 0>>
hash_token(raw) == <<"sha256", raw[1], raw[2]>>

RefreshTTL == REFRESH_TOKEN_EXPIRE_DAYS * MinutesPerDay
ResetTTL == PASSWORD_RESET_EXPIRE_HOURS * MinutesPerHour
AccessTTL == ACCESS_TOKEN_EXPIRE_MINUTES
ExpiresIn == ACCESS_TOKEN_EXPIRE_MINUTES * SecondsPerMinute

VARIABLES
    users,      \* table users: sequence, the index is the id
    links,      \* table social_accounts: set of rows
    sessions,   \* table refresh_tokens: sequence, the index is the id
    verifs,     \* table email_verification_tokens: sequence
    now,        \* wall clock, minutes
    resp,       \* the response to the last request that committed
    inflight,   \* requests that have read the tables and not yet written
    outbox      \* the messages the SMTP server accepted

vars == <<users, links, sessions, verifs, now, resp, inflight, outbox>>

(***************************************************************************)
(* Results and responses.  A handler's result is the status and detail of  *)
(* its HTTP answer, decided from the state the request finds.  A request   *)
(* whose result is not 200 raised before its transaction committed: it     *)
(* rolls back and leaves every table as it was.                            *)
(***************************************************************************)
Result(status_code, detail) == [status |-> status_code, detail |-> detail]
OK == Result(200, "ok")
\* an exception that no handler catches: the request ends 500
InternalServerError == Result(500, "Internal Server Error")

\* op and user: the request and the user it acted for; presented: the secret the
\* client sent; token: the secret returned; count: the rows a bulk revocation
\* changed; via: the rule of _handle_social_auth that applied, and email_user: the
\* user that held the email the provider reported (0: none)
Response(op, user, presented, token, expires_in, count, via) ==
    [op |-> op, user |-> user, presented |-> presented, token |-> token,
     expires_in |-> expires_in, count |-> count, via |-> via, email_user |-> 0]
NoResponse == Response("none", 0, NoToken, NoToken, 0, 0, "")
MessageResponse(op, user) == Response(op, user, NoToken, NoToken, 0, 0, "")
AuthResponse(op, user, presented, token, via) ==
    Response(op, user, presented, token, ExpiresIn, 0, via)

(***************************************************************************)
(* Account store (UserService).                                            *)
(***************************************************************************)
UserIds == 1..Len(users)

get_user_by_email(email) ==
    IF \E i \in UserIds : users[i].email = Lower(email)
    THEN CHOOSE i \in UserIds : users[i].email = Lower(email)
    ELSE 0

create_user(email, password_hash, email_verified) ==
    [email |-> Lower(email), password_hash |-> password_hash,
     email_verified |-> email_verified, is_active |-> TRUE]

set_password(user_id, password) ==
    [users EXCEPT ![user_id].password_hash =
        hash_password(password, FreshSalt(users[user_id].password_hash))]

mark_email_verified(us, user_id) == [us EXCEPT ![user_id].email_verified = TRUE]

user_verify_password(user_id, password) ==
    /\ users[user_id].password_hash # NoHash
    /\ verify_password(password, users[user_id].password_hash)

has_password(user_id) == users[user_id].password_hash # NoHash

link_social_account(user_id, provider, provider_user_id) ==
    [user_id |-> user_id, provider |-> provider, provider_user_id |-> provider_user_id]

get_social_account(provider, provider_user_id) ==
    {l \in links : l.provider = provider /\ l.provider_user_id = provider_user_id}

get_user_social_accounts(user_id) == {l \in links : l.user_id = user_id}

\* the list of provider names of a user's links, one entry per row: kept as the rows
get_user_providers(user_id) == get_user_social_accounts(user_id)

\* name in providers, for a list of provider names
InProviders(name, providers) == \E l \in providers : l.provider = name

unlink_social_account(user_id, provider) ==
    {l \in links : ~(l.user_id = user_id /\ l.provider = provider)}

(***************************************************************************)
(* Session ledger and verification ledger.                                 *)
(***************************************************************************)
RefreshToken(user_id, raw) ==
    [user_id |-> user_id, token_hash |-> hash_token(raw),
     expires_at |-> now + RefreshTTL, is_revoked |-> FALSE]

EmailVerificationToken(user_id, raw, token_type, ttl) ==
    [user_id |-> user_id, token_hash |-> hash_token(raw), token_type |-> token_type,
     expires_at |-> now + ttl, is_used |-> FALSE]

is_expired(row) == now > row.expires_at

SessionByHash(h) ==
    IF \E i \in 1..Len(sessions) : sessions[i].token_hash = h
    THEN CHOOSE i \in 1..Len(sessions) : sessions[i].token_hash = h
    ELSE 0

VerifBy(h, token_type) ==
    IF \E i \in 1..Len(verifs) : verifs[i].token_hash = h /\ verifs[i].token_type = token_type
    THEN CHOOSE i \in 1..Len(verifs) : verifs[i].token_hash = h /\ verifs[i].token_type = token_type
    ELSE 0

\* the unique constraint uq_email_verification_tokens_token_hash
VerifHashFree(h) == \A i \in 1..Len(verifs) : verifs[i].token_hash # h

\* secrets.token_urlsafe: a value never drawn before
create_refresh_token == <<"rt", Len(sessions) + 1>>
create_verification_token == <<"rst", Len(verifs) + 1>>
\* a numeric code of OTP_LENGTH digits: two draws can be equal
generate_otp_code(n) == <<"otp", n>>

\* AuthService._generate_tokens: the refresh_tokens row it adds to table ss
generate_tokens(ss, user_id) == Append(ss, RefreshToken(user_id, create_refresh_token))

\* logout_all_devices without the filter on user_id
logout_all_devices_every_user(user_id) ==
    [i \in 1..Len(sessions) |->
        IF ~sessions[i].is_revoked
        THEN [sessions[i] EXCEPT !.is_revoked = TRUE]
        ELSE sessions[i]]

\* logout_all_devices with the filter on is_revoked inverted
logout_all_devices_inverted(user_id) ==
    [i \in 1..Len(sessions) |->
        IF sessions[i].user_id = user_id /\ sessions[i].is_revoked
        THEN [sessions[i] EXCEPT !.is_revoked = TRUE]
        ELSE sessions[i]]

\* logout_all_devices as a DELETE of the user's rows
logout_all_devices_delete(user_id) ==
    SelectSeq(sessions, LAMBDA row : row.user_id # user_id)

logout_all_devices(user_id) ==
    [i \in 1..Len(sessions) |->
        IF sessions[i].user_id = user_id /\ ~sessions[i].is_revoked
        THEN [sessions[i] EXCEPT !.is_revoked = TRUE]
        ELSE sessions[i]]

\* the rowcount of logout_all_devices
CountLive(user_id) ==
    Cardinality({i \in 1..Len(sessions) : sessions[i].user_id = user_id /\ ~sessions[i].is_revoked})

\* JWTService.create_access_token is called only by _generate_tokens, together with
\* the refresh_tokens row: the row's creation time is the access token's iat
AccessTokenLive(row) == now <= (row.expires_at - RefreshTTL) + AccessTTL

\* get_current_user: the caller holds an access token that decodes, and is active
get_current_user(user_id) ==
    /\ user_id \in UserIds
    /\ \E i \in 1..Len(sessions) : sessions[i].user_id = user_id /\ AccessTokenLive(sessions[i])
    /\ users[user_id].is_active

Init ==
    /\ users = <<>>
    /\ links = {}
    /\ sessions = <<>>
    /\ verifs = <<>>
    /\ now = 0
    /\ resp = NoResponse
    /\ inflight = {}
    /\ outbox = {}

(***************************************************************************)
(* POST /register -> AuthService.register                                  *)
(***************************************************************************)
register_result(email, otp) ==
    IF get_user_by_email(email) # 0
    THEN Result(400, "Email already registered")
    ELSE IF ~VerifHashFree(hash_token(generate_otp_code(otp)))
    THEN InternalServerError  \* IntegrityError at commit
    ELSE OK

\* register linking the email provider under the email as typed
RegisterRawProviderId(email, password, otp) ==
    LET uid == Len(users) + 1 IN
    /\ register_result(email, otp) = OK
    /\ Len(users) < MaxUsers
    /\ Len(verifs) < MaxVerifications
    /\ users' = Append(users, create_user(email, hash_password(password, 0), FALSE))
    /\ links' = links \cup {link_social_account(uid, "email", email)}
    /\ verifs' = Append(verifs,
           EmailVerificationToken(uid, generate_otp_code(otp),
                                  "email_verification", OTP_EXPIRE_MINUTES))
    /\ resp' = MessageResponse("register", uid)
    /\ UNCHANGED <<sessions, now>>

\* register without the link of the email provider
RegisterNoLink(email, password, otp) ==
    LET uid == Len(users) + 1 IN
    /\ register_result(email, otp) = OK
    /\ Len(users) < MaxUsers
    /\ Len(verifs) < MaxVerifications
    /\ users' = Append(users, create_user(email, hash_password(password, 0), FALSE))
    /\ verifs' = Append(verifs,
           EmailVerificationToken(uid, generate_otp_code(otp),
                                  "email_verification", OTP_EXPIRE_MINUTES))
    /\ resp' = MessageResponse("register", uid)
    /\ UNCHANGED <<links, sessions, now>>

Register(email, password, otp) ==
    LET uid == Len(users) + 1 IN
    /\ register_result(email, otp) = OK
    /\ Len(users) < MaxUsers
    /\ Len(verifs) < MaxVerifications
    /\ users' = Append(users, create_user(email, hash_password(password, 0), FALSE))
    /\ links' = links \cup {link_social_account(uid, "email", Lower(email))}
    /\ verifs' = Append(verifs,
           EmailVerificationToken(uid, generate_otp_code(otp),
                                  "email_verification", OTP_EXPIRE_MINUTES))
    /\ resp' = MessageResponse("register", uid)
    /\ UNCHANGED <<sessions, now>>

(***************************************************************************)
(* POST /login -> AuthService.login                                        *)
(***************************************************************************)
\* login without the email_verified check
login_result_unverified(email, password) ==
    LET uid == get_user_by_email(email) IN
    IF uid = 0
    THEN Result(401, "Invalid email or password")
    ELSE IF ~users[uid].is_active
    THEN Result(401, "Account is deactivated")
    ELSE IF ~user_verify_password(uid, password)
    THEN Result(401, "Invalid email or password")
    ELSE OK

login_result(email, password) ==
    LET uid == get_user_by_email(email) IN
    IF uid = 0
    THEN Result(401, "Invalid email or password")
    ELSE IF ~users[uid].is_active
    THEN Result(401, "Account is deactivated")
    ELSE IF ~user_verify_password(uid, password)
    THEN Result(401, "Invalid email or password")
    ELSE IF ~users[uid].email_verified
    THEN Result(401, "Please verify your email before logging in")
    ELSE OK

Login(email, password) ==
    LET uid == get_user_by_email(email) IN
    /\ login_result(email, password) = OK
    /\ Len(sessions) < MaxSessions
    /\ sessions' = generate_tokens(sessions, uid)
    /\ resp' = AuthResponse("login", uid, NoToken, create_refresh_token, "")
    /\ UNCHANGED <<users, links, verifs, now>>

(***************************************************************************)
(* POST /refresh -> AuthService.refresh_tokens                             *)
(***************************************************************************)
\* refresh_tokens without the test of stored_token.is_expired
refresh_tokens_result_no_expiry(raw) ==
    LET sid == SessionByHash(hash_token(raw)) IN
    IF sid = 0
    THEN Result(401, "Invalid refresh token")
    ELSE IF sessions[sid].is_revoked
    THEN Result(401, "Refresh token has been revoked")
    ELSE IF ~users[sessions[sid].user_id].is_active
    THEN Result(401, "User not found or inactive")
    ELSE OK

refresh_tokens_result(raw) ==
    LET sid == SessionByHash(hash_token(raw)) IN
    IF sid = 0
    THEN Result(401, "Invalid refresh token")
    ELSE IF sessions[sid].is_revoked
    THEN Result(401, "Refresh token has been revoked")
    ELSE IF is_expired(sessions[sid])
    THEN Result(401, "Refresh token has expired")
    ELSE IF ~users[sessions[sid].user_id].is_active
    THEN Result(401, "User not found or inactive")
    ELSE OK

\* refresh_tokens without "stored_token.is_revoked = True"
RefreshTokensNoRevoke(raw) ==
    LET sid == SessionByHash(hash_token(raw)) IN
    /\ refresh_tokens_result(raw) = OK
    /\ Len(sessions) < MaxSessions
    /\ sessions' = generate_tokens(sessions, sessions[sid].user_id)
    /\ resp' = AuthResponse("refresh", sessions[sid].user_id, raw, create_refresh_token, "")
    /\ UNCHANGED <<users, links, verifs, now>>

RefreshTokens(raw) ==
    LET sid == SessionByHash(hash_token(raw)) IN
    /\ refresh_tokens_result(raw) = OK
    /\ Len(sessions) < MaxSessions
    /\ sessions' = generate_tokens([sessions EXCEPT ![sid].is_revoked = TRUE],
                                   sessions[sid].user_id)
    /\ resp' = AuthResponse("refresh", sessions[sid].user_id, raw, create_refresh_token, "")
    /\ UNCHANGED <<users, links, verifs, now>>

(***************************************************************************)
(* POST /logout -> AuthService.logout                                      *)
(***************************************************************************)
\* logout updating only a row that is not revoked yet
logout_result_live_only(raw) ==
    IF \/ SessionByHash(hash_token(raw)) = 0
       \/ sessions[SessionByHash(hash_token(raw))].is_revoked
    THEN Result(400, "Logout failed")
    ELSE OK

logout_result(raw) ==
    IF SessionByHash(hash_token(raw)) = 0
    THEN Result(400, "Logout failed")
    ELSE OK

Logout(raw) ==
    LET sid == SessionByHash(hash_token(raw)) IN
    /\ logout_result(raw) = OK
    /\ sessions' = [sessions EXCEPT ![sid].is_revoked = TRUE]
    /\ resp' = Response("logout", 0, raw, NoToken, 0, 0, "")
    /\ UNCHANGED <<users, links, verifs, now>>

(***************************************************************************)
(* POST /logout-all -> AuthService.logout_all_devices                      *)
(***************************************************************************)
LogoutAllDevices(user_id) ==
    /\ get_current_user(user_id)
    /\ sessions' = logout_all_devices(user_id)
    /\ resp' = Response("logout_all", user_id, NoToken, NoToken, 0, CountLive(user_id), "")
    /\ UNCHANGED <<users, links, verifs, now>>

(***************************************************************************)
(* POST /verify-email -> AuthService.verify_email, then the auto-login     *)
(***************************************************************************)
\* verify_email looking the code up by digest and kind alone
verify_email_result_any_owner(email, code) ==
    LET uid == get_user_by_email(email)
        vid == VerifBy(hash_token(generate_otp_code(code)), "email_verification")
    IN
    IF uid = 0
    THEN Result(400, "Invalid verification code")
    ELSE IF vid = 0
    THEN Result(400, "Invalid verification code")
    ELSE IF verifs[vid].is_used
    THEN Result(400, "Code has already been used")
    ELSE IF is_expired(verifs[vid])
    THEN Result(400, "Code has expired")
    ELSE OK

verify_email_result(email, code) ==
    LET uid == get_user_by_email(email)
        vid == VerifBy(hash_token(generate_otp_code(code)), "email_verification")
    IN
    IF uid = 0
    THEN Result(400, "Invalid verification code")
    ELSE IF vid = 0 \/ verifs[vid].user_id # uid
    THEN Result(400, "Invalid verification code")
    ELSE IF verifs[vid].is_used
    THEN Result(400, "Code has already been used")
    ELSE IF is_expired(verifs[vid])
    THEN Result(400, "Code has expired")
    ELSE OK

\* verify_email without "verification.is_used = True"
VerifyEmailNoMark(email, code) ==
    LET uid == get_user_by_email(email) IN
    /\ verify_email_result(email, code) = OK
    /\ Len(sessions) < MaxSessions
    /\ users' = mark_email_verified(users, uid)
    /\ sessions' = generate_tokens(sessions, uid)
    /\ resp' = AuthResponse("verify_email", uid, generate_otp_code(code), create_refresh_token, "")
    /\ UNCHANGED <<verifs, links, now>>

VerifyEmail(email, code) ==
    LET uid == get_user_by_email(email)
        vid == VerifBy(hash_token(generate_otp_code(code)), "email_verification")
    IN
    /\ verify_email_result(email, code) = OK
    /\ Len(sessions) < MaxSessions
    /\ verifs' = [verifs EXCEPT ![vid].is_used = TRUE]
    /\ users' = mark_email_verified(users, uid)
    /\ sessions' = generate_tokens(sessions, uid)
    /\ resp' = AuthResponse("verify_email", uid, generate_otp_code(code), create_refresh_token, "")
    /\ UNCHANGED <<links, now>>

(***************************************************************************)
(* POST /reset-password -> AuthService.request_password_reset              *)
(***************************************************************************)
\* request_password_reset answering an unknown email with an error
request_password_reset_result_not_found(email) ==
    LET uid == get_user_by_email(email) IN
    IF uid = 0
    THEN Result(404, "User not found")
    ELSE IF ~has_password(uid)
    THEN InternalServerError
    ELSE Result(200, "If the email exists, a password reset link has been sent")

request_password_reset_result(email) ==
    LET uid == get_user_by_email(email) IN
    IF uid = 0
    THEN Result(200, "If the email exists, a password reset link has been sent")
    ELSE IF ~has_password(uid)
    THEN InternalServerError  \* ValueError("social_auth_only"), caught nowhere
    ELSE Result(200, "If the email exists, a password reset link has been sent")

RequestPasswordReset(email) ==
    LET uid == get_user_by_email(email) IN
    /\ request_password_reset_result(email).status = 200
    /\ uid # 0
    /\ Len(verifs) < MaxVerifications
    /\ verifs' = Append(verifs,
           EmailVerificationToken(uid, create_verification_token, "password_reset", ResetTTL))
    /\ resp' = Response("request_reset", uid, NoToken, create_verification_token, 0, 0, "")
    /\ UNCHANGED <<users, links, sessions, now>>

(***************************************************************************)
(* POST /reset-password/confirm -> AuthService.reset_password              *)
(***************************************************************************)
reset_password_result(raw) ==
    LET vid == VerifBy(hash_token(raw), "password_reset") IN
    IF vid = 0
    THEN Result(400, "Invalid reset token")
    ELSE IF verifs[vid].is_used
    THEN Result(400, "Token has already been used")
    ELSE IF is_expired(verifs[vid])
    THEN Result(400, "Token has expired")
    ELSE OK

\* reset_password without "reset_token.is_used = True"
ConfirmPasswordResetNoMark(raw, new_password) ==
    LET vid == VerifBy(hash_token(raw), "password_reset") IN
    /\ reset_password_result(raw) = OK
    /\ users' = set_password(verifs[vid].user_id, new_password)
    /\ sessions' = logout_all_devices(verifs[vid].user_id)
    /\ resp' = Response("confirm_reset", verifs[vid].user_id, raw, NoToken, 0,
                        CountLive(verifs[vid].user_id), "")
    /\ UNCHANGED <<verifs, links, now>>

ConfirmPasswordReset(raw, new_password) ==
    LET vid == VerifBy(hash_token(raw), "password_reset") IN
    /\ reset_password_result(raw) = OK
    /\ verifs' = [verifs EXCEPT ![vid].is_used = TRUE]
    /\ users' = set_password(verifs[vid].user_id, new_password)
    /\ sessions' = logout_all_devices(verifs[vid].user_id)
    /\ resp' = Response("confirm_reset", verifs[vid].user_id, raw, NoToken, 0,
                        CountLive(verifs[vid].user_id), "")
    /\ UNCHANGED <<links, now>>

(***************************************************************************)
(* POST /resend-verification -> AuthService.resend_verification_email      *)
(***************************************************************************)
\* the invalidating UPDATE restricted to the rows that have expired
InvalidateOldExpiredOnly(user_id) ==
    [i \in 1..Len(verifs) |->
        IF /\ verifs[i].user_id = user_id
           /\ verifs[i].token_type = "email_verification"
           /\ ~verifs[i].is_used
           /\ is_expired(verifs[i])
        THEN [verifs[i] EXCEPT !.is_used = TRUE]
        ELSE verifs[i]]

InvalidateOld(user_id) ==
    [i \in 1..Len(verifs) |->
        IF /\ verifs[i].user_id = user_id
           /\ verifs[i].token_type = "email_verification"
           /\ ~verifs[i].is_used
        THEN [verifs[i] EXCEPT !.is_used = TRUE]
        ELSE verifs[i]]

resend_verification_email_result(email, otp) ==
    LET uid == get_user_by_email(email) IN
    IF uid = 0
    THEN Result(200, "If the email exists, a verification link has been sent")
    ELSE IF users[uid].email_verified
    THEN Result(400, "Email is already verified")
    ELSE IF ~VerifHashFree(hash_token(generate_otp_code(otp)))
    THEN InternalServerError  \* IntegrityError at commit
    ELSE Result(200, "Verification email sent. Please check your inbox.")

\* resend_verification_email without the invalidation of the old codes
ResendVerificationKeepOld(email, otp) ==
    LET uid == get_user_by_email(email) IN
    /\ resend_verification_email_result(email, otp).status = 200
    /\ uid # 0
    /\ Len(verifs) < MaxVerifications
    /\ verifs' = Append(verifs,
           EmailVerificationToken(uid, generate_otp_code(otp),
                                  "email_verification", OTP_EXPIRE_MINUTES))
    /\ resp' = Response("resend", uid, NoToken, generate_otp_code(otp), 0, 0, "")
    /\ UNCHANGED <<users, links, sessions, now>>

ResendVerification(email, otp) ==
    LET uid == get_user_by_email(email) IN
    /\ resend_verification_email_result(email, otp).status = 200
    /\ uid # 0
    /\ Len(verifs) < MaxVerifications
    /\ verifs' = Append(InvalidateOld(uid),
           EmailVerificationToken(uid, generate_otp_code(otp),
                                  "email_verification", OTP_EXPIRE_MINUTES))
    /\ resp' = Response("resend", uid, NoToken, generate_otp_code(otp), 0, 0, "")
    /\ UNCHANGED <<users, links, sessions, now>>

(***************************************************************************)
(* AuthService.change_password, for the logged-in user                     *)
(***************************************************************************)
change_password_result(user_id, current_password) ==
    IF ~has_password(user_id)
    THEN Result(400, "No password set. You signed up with a social provider.")
    ELSE IF ~user_verify_password(user_id, current_password)
    THEN Result(400, "Current password is incorrect")
    ELSE OK

\* change_password without the revocation of the user's refresh tokens
ChangePasswordKeepSessions(user_id, current_password, new_password) ==
    /\ get_current_user(user_id)
    /\ change_password_result(user_id, current_password) = OK
    /\ users' = set_password(user_id, new_password)
    /\ resp' = Response("change_password", user_id, NoToken, NoToken, 0,
                        CountLive(user_id), "")
    /\ UNCHANGED <<sessions, links, verifs, now>>

ChangePassword(user_id, current_password, new_password) ==
    /\ get_current_user(user_id)
    /\ change_password_result(user_id, current_password) = OK
    /\ users' = set_password(user_id, new_password)
    /\ sessions' = logout_all_devices(user_id)
    /\ resp' = Response("change_password", user_id, NoToken, NoToken, 0,
                        CountLive(user_id), "")
    /\ UNCHANGED <<links, verifs, now>>

(***************************************************************************)
(* POST /set-password -> AuthService.set_password_for_social_user          *)
(***************************************************************************)
set_password_for_social_user_result(user_id) ==
    IF has_password(user_id)
    THEN Result(400, "User already has a password")
    ELSE IF /\ ~InProviders("email", get_user_providers(user_id))
            /\ get_social_account("email", users[user_id].email) # {}
    THEN InternalServerError  \* uq_social_accounts_provider_user refuses the row
    ELSE OK

\* set_password_for_social_user without linking the email provider
SetPasswordForSocialUserNoLink(user_id, password) ==
    /\ get_current_user(user_id)
    /\ set_password_for_social_user_result(user_id) = OK
    /\ users' = set_password(user_id, password)
    /\ resp' = MessageResponse("set_password", user_id)
    /\ UNCHANGED <<links, sessions, verifs, now>>

SetPasswordForSocialUser(user_id, password) ==
    /\ get_current_user(user_id)
    /\ set_password_for_social_user_result(user_id) = OK
    /\ users' = set_password(user_id, password)
    /\ links' = IF InProviders("email", get_user_providers(user_id))
                THEN links
                ELSE links \cup {link_social_account(user_id, "email", users[user_id].email)}
    /\ resp' = MessageResponse("set_password", user_id)
    /\ UNCHANGED <<sessions, verifs, now>>

(***************************************************************************)
(* POST /google, /facebook -> _handle_social_auth                          *)
(***************************************************************************)
\* _handle_social_auth looking the email up before the provider link
social_auth_user_email_first(provider, provider_user_id, email) ==
    LET social_account == get_social_account(provider, provider_user_id) IN
    IF get_user_by_email(email) # 0
    THEN get_user_by_email(email)
    ELSE IF social_account # {}
    THEN (CHOOSE l \in social_account : TRUE).user_id
    ELSE 0

\* _handle_social_auth without the lookup by email
social_auth_user_link_only(provider, provider_user_id, email) ==
    LET social_account == get_social_account(provider, provider_user_id) IN
    IF social_account # {}
    THEN (CHOOSE l \in social_account : TRUE).user_id
    ELSE 0

\* the user _handle_social_auth resolves the identity to: the owner of the link,
\* else the user holding the email, else 0 (a user is to be created)
social_auth_user(provider, provider_user_id, email) ==
    LET social_account == get_social_account(provider, provider_user_id) IN
    IF social_account # {}
    THEN (CHOOSE l \in social_account : TRUE).user_id
    ELSE get_user_by_email(email)

social_auth_result(provider, provider_user_id, email) ==
    LET social_account == get_social_account(provider, provider_user_id) IN
    IF email = NoEmail
    THEN Result(401, "Email not provided")
    ELSE IF social_account # {}
            /\ ~users[social_auth_user(provider, provider_user_id, email)].is_active
    THEN Result(401, "Account is deactivated")
    ELSE OK

\* _handle_social_auth creating the user without linking the provider
SocialAuthCreateNoLink(provider, provider_user_id, email, email_verified) ==
    LET social_account == get_social_account(provider, provider_user_id)
        found == social_auth_user(provider, provider_user_id, email)
        uid == IF found = 0 THEN Len(users) + 1 ELSE found
    IN
    /\ social_auth_result(provider, provider_user_id, email) = OK
    /\ Len(sessions) < MaxSessions
    /\ IF social_account # {}
       THEN UNCHANGED <<users, links>>
       ELSE IF found # 0
       THEN /\ links' = links \cup {link_social_account(uid, provider, provider_user_id)}
            /\ users' = IF email_verified /\ ~users[uid].email_verified
                        THEN mark_email_verified(users, uid)
                        ELSE users
       ELSE /\ Len(users) < MaxUsers
            /\ users' = Append(users, create_user(email, NoHash, email_verified))
            /\ links' = links
    /\ sessions' = generate_tokens(sessions, uid)
    /\ resp' = [AuthResponse("social", uid, NoToken, create_refresh_token,
                              IF social_account # {} THEN "login"
                              ELSE IF found # 0 THEN "link" ELSE "create")
                 EXCEPT !.email_user = get_user_by_email(email)]
    /\ UNCHANGED <<verifs, now>>

SocialAuth(provider, provider_user_id, email, email_verified) ==
    LET social_account == get_social_account(provider, provider_user_id)
        found == social_auth_user(provider, provider_user_id, email)
        uid == IF found = 0 THEN Len(users) + 1 ELSE found
    IN
    /\ social_auth_result(provider, provider_user_id, email) = OK
    /\ Len(sessions) < MaxSessions
    /\ IF social_account # {}
       THEN UNCHANGED <<users, links>>
       ELSE IF found # 0
       THEN /\ links' = links \cup {link_social_account(uid, provider, provider_user_id)}
            /\ users' = IF email_verified /\ ~users[uid].email_verified
                        THEN mark_email_verified(users, uid)
                        ELSE users
       ELSE /\ Len(users) < MaxUsers
            /\ users' = Append(users, create_user(email, NoHash, email_verified))
            /\ links' = links \cup {link_social_account(uid, provider, provider_user_id)}
    /\ sessions' = generate_tokens(sessions, uid)
    /\ resp' = [AuthResponse("social", uid, NoToken, create_refresh_token,
                              IF social_account # {} THEN "login"
                              ELSE IF found # 0 THEN "link" ELSE "create")
                 EXCEPT !.email_user = get_user_by_email(email)]
    /\ UNCHANGED <<verifs, now>>

(***************************************************************************)
(* POST /link/google, /link/facebook                                       *)
(***************************************************************************)
\* link_google refusing only an identity the caller holds already
link_provider_result_own_only(user_id, provider, provider_user_id) ==
    LET existing == get_social_account(provider, provider_user_id) IN
    IF existing # {} /\ (CHOOSE l \in existing : TRUE).user_id = user_id
    THEN Result(400, "account is already linked to your account")
    ELSE OK

link_provider_result(user_id, provider, provider_user_id) ==
    LET existing == get_social_account(provider, provider_user_id) IN
    IF existing # {}
    THEN IF (CHOOSE l \in existing : TRUE).user_id = user_id
         THEN Result(400, "account is already linked to your account")
         ELSE Result(400, "account is linked to another user")
    ELSE OK

LinkProvider(user_id, provider, provider_user_id) ==
    /\ get_current_user(user_id)
    /\ link_provider_result(user_id, provider, provider_user_id) = OK
    /\ links' = links \cup {link_social_account(user_id, provider, provider_user_id)}
    /\ resp' = MessageResponse("link", user_id)
    /\ UNCHANGED <<users, sessions, verifs, now>>

(***************************************************************************)
(* DELETE /link/{provider} -> unlink_provider                              *)
(***************************************************************************)
\* unlink_provider with "len(providers) < 1" for "len(providers) <= 1"
unlink_provider_result_off_by_one(user_id, provider) ==
    LET providers == get_user_providers(user_id)
        remaining_providers == {l \in providers : l.provider # provider}
    IN
    IF provider \notin ProviderEnum
    THEN Result(400, "Invalid provider")
    ELSE IF provider = "email"
    THEN Result(400, "Cannot unlink email provider")
    ELSE IF Cardinality(providers) < 1
    THEN Result(400, "Cannot unlink the only authentication method")
    ELSE IF /\ ~has_password(user_id)
            /\ ~InProviders("email", remaining_providers)
            /\ Cardinality(remaining_providers) < 1
    THEN Result(400, "Set a password before unlinking social accounts")
    ELSE IF unlink_social_account(user_id, provider) = links
    THEN Result(404, "account not linked")
    ELSE OK

\* unlink_provider without the check of the password and the remaining providers
unlink_provider_result_no_password_check(user_id, provider) ==
    LET providers == get_user_providers(user_id) IN
    IF provider \notin ProviderEnum
    THEN Result(400, "Invalid provider")
    ELSE IF provider = "email"
    THEN Result(400, "Cannot unlink email provider")
    ELSE IF Cardinality(providers) <= 1
    THEN Result(400, "Cannot unlink the only authentication method")
    ELSE IF unlink_social_account(user_id, provider) = links
    THEN Result(404, "account not linked")
    ELSE OK

\* unlink_provider without the test "provider_enum == ProviderEnum.EMAIL"
unlink_provider_result_email_allowed(user_id, provider) ==
    LET providers == get_user_providers(user_id)
        remaining_providers == {l \in providers : l.provider # provider}
    IN
    IF provider \notin ProviderEnum
    THEN Result(400, "Invalid provider")
    ELSE IF Cardinality(providers) <= 1
    THEN Result(400, "Cannot unlink the only authentication method")
    ELSE IF /\ ~has_password(user_id)
            /\ ~InProviders("email", remaining_providers)
            /\ Cardinality(remaining_providers) < 1
    THEN Result(400, "Set a password before unlinking social accounts")
    ELSE IF unlink_social_account(user_id, provider) = links
    THEN Result(404, "account not linked")
    ELSE OK

unlink_provider_result(user_id, provider) ==
    LET providers == get_user_providers(user_id)
        remaining_providers == {l \in providers : l.provider # provider}
    IN
    IF provider \notin ProviderEnum
    THEN Result(400, "Invalid provider")
    ELSE IF provider = "email"
    THEN Result(400, "Cannot unlink email provider")
    ELSE IF Cardinality(providers) <= 1
    THEN Result(400, "Cannot unlink the only authentication method")
    ELSE IF /\ ~has_password(user_id)
            /\ ~InProviders("email", remaining_providers)
            /\ Cardinality(remaining_providers) < 1
    THEN Result(400, "Set a password before unlinking social accounts")
    ELSE IF unlink_social_account(user_id, provider) = links
    THEN Result(404, "account not linked")
    ELSE OK

UnlinkProvider(user_id, provider) ==
    /\ get_current_user(user_id)
    /\ unlink_provider_result(user_id, provider) = OK
    /\ links' = unlink_social_account(user_id, provider)
    /\ resp' = MessageResponse("unlink", user_id)
    /\ UNCHANGED <<users, sessions, verifs, now>>

(***************************************************************************)
(* The environment: time passes; an operator deactivates an account        *)
(* (users.is_active, which no handler writes).                             *)
(***************************************************************************)
AdvanceSteps == {OTP_EXPIRE_MINUTES + 1, RefreshTTL + 1}

Advances(t) == (t \div (RefreshTTL + 1)) + ((t % (RefreshTTL + 1)) \div (OTP_EXPIRE_MINUTES + 1))

Advance(d) ==
    /\ Advances(now) < MaxAdvances
    /\ now' = now + d
    /\ resp' = NoResponse
    /\ UNCHANGED <<users, links, sessions, verifs>>

Deactivate(user_id) ==
    /\ user_id \in UserIds
    /\ users[user_id].is_active
    /\ users' = [users EXCEPT ![user_id].is_active = FALSE]
    /\ resp' = NoResponse
    /\ UNCHANGED <<links, sessions, verifs, now>>

ResetSecrets == {<<"rst", n>> : n \in 1..MaxVerifications} \cup {<<"otp", c>> : c \in OtpCodes}

(***************************************************************************)
(* Credentials, sessions and verification records.                         *)
(***************************************************************************)
Next ==
    \/ \E e \in RawEmails, p \in Passwords, c \in OtpCodes : Register(e, p, c) /\ UNCHANGED <<inflight, outbox>>
    \/ \E e \in RawEmails, p \in Passwords : Login(e, p) /\ UNCHANGED <<inflight, outbox>>
    \/ \E n \in 1..MaxSessions : RefreshTokens(<<"rt", n>>) /\ UNCHANGED <<inflight, outbox>>
    \/ \E n \in 1..MaxSessions : Logout(<<"rt", n>>) /\ UNCHANGED <<inflight, outbox>>
    \/ \E u \in 1..MaxUsers : LogoutAllDevices(u) /\ UNCHANGED <<inflight, outbox>>
    \/ \E e \in RawEmails, c \in OtpCodes : VerifyEmail(e, c) /\ UNCHANGED <<inflight, outbox>>
    \/ \E e \in RawEmails : RequestPasswordReset(e) /\ UNCHANGED <<inflight, outbox>>
    \/ \E r \in ResetSecrets, p \in Passwords : ConfirmPasswordReset(r, p) /\ UNCHANGED <<inflight, outbox>>
    \/ \E e \in RawEmails, c \in OtpCodes : ResendVerification(e, c) /\ UNCHANGED <<inflight, outbox>>
    \/ \E u \in 1..MaxUsers, p \in Passwords, q \in Passwords : ChangePassword(u, p, q) /\ UNCHANGED <<inflight, outbox>>
    \/ \E d \in AdvanceSteps : Advance(d) /\ UNCHANGED <<inflight, outbox>>
    \/ \E u \in 1..MaxUsers : Deactivate(u) /\ UNCHANGED <<inflight, outbox>>

Spec == Init /\ [][Next]_vars

(***************************************************************************)
(* Accounts and linked providers.                                          *)
(***************************************************************************)
NextLink ==
    \/ \E e \in RawEmails, p \in Passwords, c \in OtpCodes : Register(e, p, c) /\ UNCHANGED <<inflight, outbox>>
    \/ \E e \in RawEmails, p \in Passwords : Login(e, p) /\ UNCHANGED <<inflight, outbox>>
    \/ \E e \in RawEmails, c \in OtpCodes : VerifyEmail(e, c) /\ UNCHANGED <<inflight, outbox>>
    \/ \E u \in 1..MaxUsers, p \in Passwords : SetPasswordForSocialUser(u, p) /\ UNCHANGED <<inflight, outbox>>
    \/ \E pr \in SocialProviders, e \in RawEmails \cup {NoEmail}, v \in BOOLEAN :
          \E id \in ProviderIds(pr) :
             SocialAuth(pr, id, e, IF pr = "facebook" THEN TRUE ELSE v) /\ UNCHANGED <<inflight, outbox>>
    \/ \E u \in 1..MaxUsers, pr \in SocialProviders : \E id \in ProviderIds(pr) :
          LinkProvider(u, pr, id) /\ UNCHANGED <<inflight, outbox>>
    \/ \E u \in 1..MaxUsers, pr \in ProviderNames : UnlinkProvider(u, pr) /\ UNCHANGED <<inflight, outbox>>
    \/ \E u \in 1..MaxUsers : Deactivate(u) /\ UNCHANGED <<inflight, outbox>>

SpecLink == Init /\ [][NextLink]_vars

(***************************************************************************)
(* Passwords of registered and of social-only users.                       *)
(***************************************************************************)
NextPassword ==
    \/ \E e \in RawEmails, p \in Passwords, c \in OtpCodes : Register(e, p, c) /\ UNCHANGED <<inflight, outbox>>
    \/ \E e \in RawEmails, c \in OtpCodes : VerifyEmail(e, c) /\ UNCHANGED <<inflight, outbox>>
    \/ \E pr \in SocialProviders, e \in RawEmails, v \in BOOLEAN :
          \E id \in ProviderIds(pr) :
             SocialAuth(pr, id, e, IF pr = "facebook" THEN TRUE ELSE v) /\ UNCHANGED <<inflight, outbox>>
    \/ \E u \in 1..MaxUsers, p \in Passwords : SetPasswordForSocialUser(u, p) /\ UNCHANGED <<inflight, outbox>>
    \/ \E u \in 1..MaxUsers, p \in Passwords, q \in Passwords : ChangePassword(u, p, q) /\ UNCHANGED <<inflight, outbox>>

SpecPassword == Init /\ [][NextPassword]_vars

(***************************************************************************)
(* Requests that interleave.  A request reads the tables (its existence    *)
(* pre-check, its lookup of the refresh_tokens row), and writes later, when *)
(* another request may have committed in between; the unique constraints   *)
(* of the tables decide at the write.                                      *)
(***************************************************************************)
Request(op, email, password, otp, provider, provider_user_id, email_verified, raw) ==
    [op |-> op, email |-> email, password |-> password, otp |-> otp,
     provider |-> provider, provider_user_id |-> provider_user_id,
     email_verified |-> email_verified, raw |-> raw]

\* the response of a request that ended with an error after its pre-check
ErrorResponse(op, result) == Response(op, 0, NoToken, NoToken, 0, 0, result.detail)

\* register up to and including its pre-check "if existing_user"
RegisterBegin(email, password, otp) ==
    LET req == Request("register", email, password, otp, "email", "", FALSE, NoToken) IN
    /\ get_user_by_email(email) = 0
    /\ req \notin inflight
    /\ Cardinality(inflight) < MaxInflight
    /\ inflight' = inflight \cup {req}
    /\ UNCHANGED <<users, links, sessions, verifs, now, resp>>

\* the inserts of register: users.email and token_hash are unique, the violation
\* is an IntegrityError, which register_user does not catch
register_commit_result(req) ==
    IF get_user_by_email(req.email) # 0
    THEN InternalServerError
    ELSE IF ~VerifHashFree(hash_token(generate_otp_code(req.otp)))
    THEN InternalServerError
    ELSE OK

RegisterCommit(req) ==
    /\ req \in inflight
    /\ req.op = "register"
    /\ inflight' = inflight \ {req}
    /\ IF register_commit_result(req) = OK
       THEN Register(req.email, req.password, req.otp)
       ELSE /\ resp' = ErrorResponse("register", register_commit_result(req))
            /\ UNCHANGED <<users, links, sessions, verifs, now>>

\* _handle_social_auth up to and including its two lookups, both empty
SocialAuthBegin(provider, provider_user_id, email, email_verified) ==
    LET req == Request("social", email, "", 0, provider, provider_user_id,
                       email_verified, NoToken)
    IN
    /\ get_social_account(provider, provider_user_id) = {}
    /\ get_user_by_email(email) = 0
    /\ req \notin inflight
    /\ Cardinality(inflight) < MaxInflight
    /\ inflight' = inflight \cup {req}
    /\ UNCHANGED <<users, links, sessions, verifs, now, resp>>

\* the inserts of the "create new user" branch: users.email and
\* (provider, provider_user_id) are unique, google_auth catches ValueError only
social_auth_commit_result(req) ==
    IF get_user_by_email(req.email) # 0
    THEN InternalServerError
    ELSE IF get_social_account(req.provider, req.provider_user_id) # {}
    THEN InternalServerError
    ELSE OK

SocialAuthCommit(req) ==
    /\ req \in inflight
    /\ req.op = "social"
    /\ inflight' = inflight \ {req}
    /\ IF social_auth_commit_result(req) = OK
       THEN SocialAuth(req.provider, req.provider_user_id, req.email, req.email_verified)
       ELSE /\ resp' = ErrorResponse("social", social_auth_commit_result(req))
            /\ UNCHANGED <<users, links, sessions, verifs, now>>

\* refresh_tokens up to and including its tests of the row and of the user; the
\* request carries its arrival number, so that two requests with one token differ
RefreshBegin(raw) ==
    LET req == Request("refresh", "", "", Cardinality(inflight), "", "", FALSE, raw) IN
    /\ refresh_tokens_result(raw) = OK
    /\ Cardinality(inflight) < MaxInflight
    /\ inflight' = inflight \cup {req}
    /\ UNCHANGED <<users, links, sessions, verifs, now, resp>>

\* refresh_tokens with the row revoked by an UPDATE ... WHERE is_revoked = false
\* whose row count is tested
refresh_commit_result_compare_and_swap(req) ==
    IF sessions[SessionByHash(hash_token(req.raw))].is_revoked
    THEN Result(401, "Refresh token has been revoked")
    ELSE OK

\* the writes of refresh_tokens: the row is set revoked through the object that
\* was loaded, whatever the row holds by now, and the successor is inserted
refresh_commit_result(req) == OK

\* refresh_tokens revoking every session of the row's user, not the row alone
RefreshCommitRevokeFamily(req) ==
    LET sid == SessionByHash(hash_token(req.raw)) IN
    /\ req \in inflight
    /\ req.op = "refresh"
    /\ inflight' = inflight \ {req}
    /\ Len(sessions) < MaxRaceSessions
    /\ sessions' = generate_tokens(
           [i \in 1..Len(sessions) |->
               IF sessions[i].user_id = sessions[sid].user_id
               THEN [sessions[i] EXCEPT !.is_revoked = TRUE]
               ELSE sessions[i]],
           sessions[sid].user_id)
    /\ resp' = AuthResponse("refresh", sessions[sid].user_id, req.raw,
                            create_refresh_token, "")
    /\ UNCHANGED <<users, links, verifs, now>>

RefreshCommit(req) ==
    LET sid == SessionByHash(hash_token(req.raw)) IN
    /\ req \in inflight
    /\ req.op = "refresh"
    /\ inflight' = inflight \ {req}
    /\ IF refresh_commit_result(req) = OK
       THEN /\ Len(sessions) < MaxRaceSessions
            /\ sessions' = generate_tokens([sessions EXCEPT ![sid].is_revoked = TRUE],
                                           sessions[sid].user_id)
            /\ resp' = AuthResponse("refresh", sessions[sid].user_id, req.raw,
                                    create_refresh_token, "")
            /\ UNCHANGED <<users, links, verifs, now>>
       ELSE /\ resp' = ErrorResponse("refresh", refresh_commit_result(req))
            /\ UNCHANGED <<users, links, sessions, verifs, now>>

NextRace ==
    \/ \E e \in RawEmails, p \in Passwords, c \in OtpCodes : RegisterBegin(e, p, c) /\ UNCHANGED outbox
    \/ \E req \in inflight : RegisterCommit(req) /\ UNCHANGED outbox
    \/ \E pr \in SocialProviders, e \in RawEmails, v \in BOOLEAN :
          \E id \in ProviderIds(pr) :
             SocialAuthBegin(pr, id, e, IF pr = "facebook" THEN TRUE ELSE v) /\ UNCHANGED outbox
    \/ \E req \in inflight : SocialAuthCommit(req) /\ UNCHANGED outbox
    \/ \E e \in RawEmails, c \in OtpCodes : VerifyEmail(e, c) /\ UNCHANGED <<inflight, outbox>>
    \/ \E n \in 1..MaxRaceSessions : RefreshBegin(<<"rt", n>>) /\ UNCHANGED outbox
    \/ \E req \in inflight : RefreshCommit(req) /\ UNCHANGED outbox

SpecRace == Init /\ [][NextRace]_vars

(***************************************************************************)
(* A password reset that commits while a refresh is between its tests and  *)
(* its writes.                                                             *)
(***************************************************************************)
NextResetRace ==
    \/ \E e \in RawEmails, p \in Passwords, c \in OtpCodes :
          Register(e, p, c) /\ UNCHANGED <<inflight, outbox>>
    \/ \E e \in RawEmails, c \in OtpCodes : VerifyEmail(e, c) /\ UNCHANGED <<inflight, outbox>>
    \/ \E e \in RawEmails : RequestPasswordReset(e) /\ UNCHANGED <<inflight, outbox>>
    \/ \E r \in ResetSecrets, p \in Passwords :
          ConfirmPasswordReset(r, p) /\ UNCHANGED <<inflight, outbox>>
    \/ \E n \in 1..MaxRaceSessions : RefreshBegin(<<"rt", n>>) /\ UNCHANGED outbox
    \/ \E req \in inflight : RefreshCommit(req) /\ UNCHANGED outbox

SpecResetRace == Init /\ [][NextResetRace]_vars

(***************************************************************************)
(* Unlink requests that interleave: unlink_provider reads the user's       *)
(* providers and tests them, and deletes later.                            *)
(***************************************************************************)
\* unlink_provider up to and including its tests; the request carries the email
\* of the access token's user
UnlinkBegin(user_id, provider) ==
    LET req == Request("unlink", users[user_id].email, "", 0, provider, "", FALSE, NoToken) IN
    /\ get_current_user(user_id)
    /\ unlink_provider_result(user_id, provider) = OK
    /\ req \notin inflight
    /\ Cardinality(inflight) < MaxInflight
    /\ inflight' = inflight \cup {req}
    /\ UNCHANGED <<users, links, sessions, verifs, now, resp>>

\* the DELETE of unlink_social_account: "rowcount > 0", else 404
unlink_commit_result(req) ==
    IF unlink_social_account(get_user_by_email(req.email), req.provider) = links
    THEN Result(404, "account not linked")
    ELSE OK

UnlinkCommit(req) ==
    /\ req \in inflight
    /\ req.op = "unlink"
    /\ inflight' = inflight \ {req}
    /\ IF unlink_commit_result(req) = OK
       THEN /\ links' = unlink_social_account(get_user_by_email(req.email), req.provider)
            /\ resp' = MessageResponse("unlink", get_user_by_email(req.email))
            /\ UNCHANGED <<users, sessions, verifs, now>>
       ELSE /\ resp' = ErrorResponse("unlink", unlink_commit_result(req))
            /\ UNCHANGED <<users, links, sessions, verifs, now>>

NextUnlinkRace ==
    \/ \E pr \in SocialProviders, e \in RawEmails, v \in BOOLEAN :
          \E id \in ProviderIds(pr) :
             SocialAuth(pr, id, e, IF pr = "facebook" THEN TRUE ELSE v) /\ UNCHANGED <<inflight, outbox>>
    \/ \E u \in 1..MaxUsers, pr \in SocialProviders : \E id \in ProviderIds(pr) :
          LinkProvider(u, pr, id) /\ UNCHANGED <<inflight, outbox>>
    \/ \E u \in 1..MaxUsers, pr \in SocialProviders :
          UnlinkBegin(u, pr) /\ UNCHANGED outbox
    \/ \E req \in inflight : UnlinkCommit(req) /\ UNCHANGED outbox

SpecUnlinkRace == Init /\ [][NextUnlinkRace]_vars

(***************************************************************************)
(* Notification Gateway: the requests that send a message, with the        *)
(* outcome gateway_ok of the SMTP exchange as an input.                    *)
(***************************************************************************)
Message(to_email, kind, secret) == [to |-> to_email, kind |-> kind, secret |-> secret]

\* send_email without "except Exception": a failed exchange leaves as an exception
send_email_no_except(gateway_ok) == [raised |-> ~gateway_ok, value |-> TRUE]

\* EmailService.send_email: True when the server accepted the message, False when
\* the service is not configured or the exchange raised; it raises nothing
send_email(gateway_ok) == [raised |-> FALSE, value |-> gateway_ok]

Deliver(sent, msg) == IF sent.value THEN outbox \cup {msg} ELSE outbox

\* register: the inserts, then "await email_service.send_verification_email(...)"
\* whose value is dropped
RegisterDispatch(email, password, otp, gateway_ok) ==
    LET sent == send_email(gateway_ok) IN
    /\ register_result(email, otp) = OK
    /\ Len(users) < MaxUsers
    /\ Len(verifs) < MaxVerifications
    /\ IF sent.raised
       THEN /\ resp' = ErrorResponse("register", InternalServerError)
            /\ UNCHANGED <<users, links, sessions, verifs, now, outbox>>
       ELSE /\ Register(email, password, otp)
            /\ outbox' = Deliver(sent, Message(email, "verification", generate_otp_code(otp)))
    /\ UNCHANGED inflight

\* resend_verification_email, with its send_verification_email
ResendVerificationDispatch(email, otp, gateway_ok) ==
    LET sent == send_email(gateway_ok) IN
    /\ resend_verification_email_result(email, otp).status = 200
    /\ get_user_by_email(email) # 0
    /\ Len(verifs) < MaxVerifications
    /\ IF sent.raised
       THEN /\ resp' = ErrorResponse("resend", InternalServerError)
            /\ UNCHANGED <<users, links, sessions, verifs, now, outbox>>
       ELSE /\ ResendVerification(email, otp)
            /\ outbox' = Deliver(sent, Message(email, "verification", generate_otp_code(otp)))
    /\ UNCHANGED inflight

\* request_password_reset, with its send_password_reset_email
RequestPasswordResetDispatch(email, gateway_ok) ==
    LET sent == send_email(gateway_ok) IN
    /\ request_password_reset_result(email).status = 200
    /\ get_user_by_email(email) # 0
    /\ Len(verifs) < MaxVerifications
    /\ IF sent.raised
       THEN /\ resp' = ErrorResponse("request_reset", InternalServerError)
            /\ UNCHANGED <<users, links, sessions, verifs, now, outbox>>
       ELSE /\ RequestPasswordReset(email)
            /\ outbox' = Deliver(sent, Message(email, "reset", create_verification_token))
    /\ UNCHANGED inflight

NextMail ==
    \/ \E e \in RawEmails, p \in Passwords, c \in OtpCodes, g \in BOOLEAN :
          RegisterDispatch(e, p, c, g)
    \/ \E e \in RawEmails, c \in OtpCodes, g \in BOOLEAN : ResendVerificationDispatch(e, c, g)
    \/ \E e \in RawEmails, g \in BOOLEAN : RequestPasswordResetDispatch(e, g)
    \/ \E e \in RawEmails, c \in OtpCodes : VerifyEmail(e, c) /\ UNCHANGED <<inflight, outbox>>

SpecMail == Init /\ [][NextMail]_vars

(***************************************************************************)
(* Properties.                                                             *)
(***************************************************************************)
RefreshSecrets == {<<"rt", n>> : n \in 1..MaxSessions}

\* the refresh_tokens row of a raw token is there and revoked
Revoked(raw) ==
    /\ SessionByHash(hash_token(raw)) # 0
    /\ sessions[SessionByHash(hash_token(raw))].is_revoked

\* C1: a refresh token that a successful RefreshTokens consumed is refused by every
\* later RefreshTokens with 401, whatever happens in between and although it has
\* not expired: the refresh leaves the token's row revoked, a revoked row stays
\* revoked through every step, and a revoked token is answered 401.
C1_RefreshTokenSingleUse ==
    [][\A raw \in RefreshSecrets :
          /\ RefreshTokens(raw) => Revoked(raw)'
          /\ Revoked(raw) => Revoked(raw)'
          /\ Revoked(raw) => /\ refresh_tokens_result(raw).status = 401
                             /\ ~RefreshTokens(raw)]_vars

\* a refresh has consumed a token that is still unexpired, and presenting it again is refused
C1_Witness ==
    /\ resp.op = "refresh"
    /\ Revoked(resp.presented)
    /\ ~is_expired(sessions[SessionByHash(hash_token(resp.presented))])
    /\ refresh_tokens_result(resp.presented) = Result(401, "Refresh token has been revoked")

\* C2: in the state a successful ConfirmPasswordReset leaves, its user has no
\* refresh_tokens row with is_revoked = FALSE.
C2_ResetRevokesAllSessions ==
    resp.op = "confirm_reset" => CountLive(resp.user) = 0

\* a reset has just revoked two live sessions of its user
C2_Witness ==
    /\ resp.op = "confirm_reset"
    /\ resp.count = 2
    /\ CountLive(resp.user) = 0

\* C3: Login answers an unknown email, a wrong password and an inactive account
\* with one and the same error.
C3_LoginUniformError ==
    \A e \in RawEmails, p \in Passwords :
        LET uid == get_user_by_email(e) IN
        (uid = 0 \/ ~users[uid].is_active \/ ~user_verify_password(uid, p))
            => login_result(e, p) = Result(401, "Invalid email or password")

\* C4: a successful Register(email, ...) leaves the new user with exactly one
\* link, of provider email under the lowercased email, and email_verified FALSE.
C4_RegisterOneEmailLink ==
    [][\A e \in RawEmails, p \in Passwords, c \in OtpCodes :
          Register(e, p, c) =>
             LET uid == Len(users') IN
             /\ Len(users') = Len(users) + 1
             /\ {l \in links' : l.user_id = uid} =
                   {[user_id |-> uid, provider |-> "email",
                     provider_user_id |-> (IF e = "A@x.com" THEN "a@x.com" ELSE e)]}
             /\ users'[uid].email_verified = FALSE]_vars

\* a registration has just committed
C4_Witness ==
    /\ resp.op = "register"
    /\ Cardinality(get_user_social_accounts(resp.user)) = 1
    /\ users[resp.user].email = "a@x.com"
    /\ ~users[resp.user].email_verified

\* the verification record of code for the user of email is there and used
CodeSpent(email, code) ==
    LET uid == get_user_by_email(email)
        vid == VerifBy(hash_token(generate_otp_code(code)), "email_verification")
    IN
    /\ uid # 0
    /\ vid # 0
    /\ verifs[vid].user_id = uid
    /\ verifs[vid].is_used

\* the user of email holds an unused, unexpired record of code
CodeValid(email, code) ==
    LET uid == get_user_by_email(email)
        vid == VerifBy(hash_token(generate_otp_code(code)), "email_verification")
    IN
    /\ uid # 0
    /\ vid # 0
    /\ verifs[vid].user_id = uid
    /\ ~verifs[vid].is_used
    /\ ~is_expired(verifs[vid])

\* C5: a valid code is accepted; the VerifyEmail that accepts it leaves its record
\* used; a used record stays used; and VerifyEmail with the email and code of a
\* used record is answered 400 and takes no step.
C5_VerifyEmailOnce ==
    [][\A e \in RawEmails, c \in OtpCodes :
          /\ CodeValid(e, c) => verify_email_result(e, c) = OK
          /\ VerifyEmail(e, c) => CodeSpent(e, c)'
          /\ CodeSpent(e, c) => CodeSpent(e, c)'
          /\ CodeSpent(e, c) => /\ verify_email_result(e, c).status = 400
                                /\ ~VerifyEmail(e, c)]_vars

\* a code has just verified its user, and the same email and code are now refused
C5_Witness ==
    /\ resp.op = "verify_email"
    /\ users[resp.user].email_verified
    /\ verify_email_result(users[resp.user].email, resp.presented[2])
          = Result(400, "Code has already been used")

\* C6: for an active user and the correct password, Login is answered 401 "verify
\* your email" and takes no step while email_verified is FALSE; a successful
\* VerifyEmail sets email_verified, which no step resets; and with email_verified
\* TRUE Login succeeds, adds one live refresh_tokens row of the user and returns a
\* refresh token with expires_in = 900.
C6_LoginGatedByVerification ==
    [][\A e \in RawEmails :
          LET uid == get_user_by_email(e) IN
          /\ \A c \in OtpCodes : VerifyEmail(e, c) => users'[uid].email_verified
          /\ (uid # 0 /\ users[uid].email_verified) => users'[uid].email_verified
          /\ \A p \in Passwords :
                (uid # 0 /\ users[uid].is_active /\ user_verify_password(uid, p)) =>
                   IF users[uid].email_verified
                   THEN /\ login_result(e, p) = OK
                        /\ Login(e, p) =>
                              /\ Len(sessions') = Len(sessions) + 1
                              /\ SubSeq(sessions', 1, Len(sessions)) = sessions
                              /\ sessions'[Len(sessions')].user_id = uid
                              /\ ~sessions'[Len(sessions')].is_revoked
                              /\ resp'.token # NoToken
                              /\ sessions'[Len(sessions')].token_hash = hash_token(resp'.token)
                              /\ resp'.expires_in = 900
                   ELSE /\ login_result(e, p)
                              = Result(401, "Please verify your email before logging in")
                        /\ ~Login(e, p)]_vars

\* a user whose email a code verified has just logged in
C6_Witness ==
    /\ resp.op = "login"
    /\ resp.expires_in = 900
    /\ users[resp.user].email_verified
    /\ \E i \in 1..Len(verifs) :
          /\ verifs[i].user_id = resp.user
          /\ verifs[i].token_type = "email_verification"
          /\ verifs[i].is_used

\* the user a provider identity is linked to in table ls (0: not linked)
LinkOwner(ls, provider, provider_user_id) ==
    IF \E l \in ls : l.provider = provider /\ l.provider_user_id = provider_user_id
    THEN (CHOOSE l \in ls : l.provider = provider /\ l.provider_user_id = provider_user_id).user_id
    ELSE 0

\* C7: a successful social sign-in leaves its identity linked to the user it
\* signed in; a sign-in with an identity that is linked already signs that same
\* user in, adds no user and leaves the links as they were.
C7_SocialSignInIdempotent ==
    [][\A pr \in SocialProviders, e \in RawEmails, v \in BOOLEAN : \A id \in ProviderIds(pr) :
          SocialAuth(pr, id, e, v) =>
             /\ LinkOwner(links', pr, id) = resp'.user
             /\ LinkOwner(links, pr, id) # 0 =>
                   /\ resp'.user = LinkOwner(links, pr, id)
                   /\ Len(users') = Len(users)
                   /\ links' = links]_vars

\* the returning identity of the only user has just signed in again
C7_Witness ==
    /\ resp.op = "social"
    /\ resp.via = "login"
    /\ Len(users) = 1
    /\ Cardinality(links) = 1

\* C8: a social sign-in with an identity not yet linked, whose email is that of a
\* user with a password, links the identity to that user, adds no user and leaves
\* the digest as it was: every Login that succeeded before succeeds after, and
\* Login with the password succeeds once the user is active and verified.
C8_SocialLinksExistingPasswordUser ==
    [][\A pr \in SocialProviders, e \in RawEmails, v \in BOOLEAN : \A id \in ProviderIds(pr) :
          LET uid == get_user_by_email(e) IN
          (/\ SocialAuth(pr, id, e, v)
           /\ LinkOwner(links, pr, id) = 0
           /\ uid # 0
           /\ has_password(uid)) =>
              /\ Len(users') = Len(users)
              /\ resp'.user = uid
              /\ links' = links \cup {[user_id |-> uid, provider |-> pr, provider_user_id |-> id]}
              /\ users'[uid].password_hash = users[uid].password_hash
              /\ users'[uid].email = users[uid].email
              /\ \A p \in Passwords :
                    /\ login_result(e, p) = OK => login_result(e, p)' = OK
                    /\ (/\ user_verify_password(uid, p)
                        /\ users[uid].is_active
                        /\ (v \/ users[uid].email_verified)) => login_result(e, p)' = OK]_vars

\* an identity has just been linked by email to a user with a password, who can log in
C8_Witness ==
    /\ resp.op = "social"
    /\ resp.via = "link"
    /\ has_password(resp.user)
    /\ \E p \in Passwords : login_result(users[resp.user].email, p) = OK

\* C9: when the identity is linked, social sign-in issues the session for the
\* owner of the link and adds neither a user nor a link, whoever holds the email
\* the provider reports.
C9_LinkLookupBeforeEmail ==
    [][\A pr \in SocialProviders, e \in RawEmails, v \in BOOLEAN : \A id \in ProviderIds(pr) :
          (SocialAuth(pr, id, e, v) /\ LinkOwner(links, pr, id) # 0) =>
              /\ resp'.via = "login"
              /\ resp'.user = LinkOwner(links, pr, id)
              /\ sessions' = Append(sessions, sessions'[Len(sessions')])
              /\ sessions'[Len(sessions')].user_id = LinkOwner(links, pr, id)
              /\ users' = users
              /\ links' = links]_vars

\* a linked identity has just signed its owner in while another user held the reported email
C9_Witness ==
    /\ resp.op = "social"
    /\ resp.via = "login"
    /\ resp.email_user # 0
    /\ resp.email_user # resp.user

\* C10: every user has a linked provider or a password digest.
C10_UserCanAuthenticate ==
    \A u \in UserIds : get_user_social_accounts(u) # {} \/ has_password(u)

\* an unlink has just left a user without password with exactly one linked provider
C10_Witness ==
    /\ resp.op = "unlink"
    /\ ~has_password(resp.user)
    /\ Cardinality(get_user_social_accounts(resp.user)) = 1

\* C11: for a user with exactly one linked provider every unlink request, whatever
\* provider it names, is answered 400 and no unlink step is taken, so the link stays.
C11_UnlinkSoleProviderRejected ==
    [][\A u \in UserIds, pr \in ProviderNames :
          Cardinality(get_user_social_accounts(u)) = 1 =>
             /\ unlink_provider_result(u, pr).status = 400
             /\ ~UnlinkProvider(u, pr)]_vars

\* an unlink has left a logged-in user one provider, and every further unlink is refused
C11_Witness ==
    /\ resp.op = "unlink"
    /\ get_current_user(resp.user)
    /\ Cardinality(get_user_social_accounts(resp.user)) = 1
    /\ \E l \in links :
          /\ l.user_id = resp.user
          /\ unlink_provider_result(resp.user, l.provider)
                = Result(400, "Cannot unlink the only authentication method")

\* C12: a (provider, provider_user_id) pair is linked to at most one user in every
\* state, and a link request for a pair that is linked already, to the caller or to
\* another user, is answered 400 and adds no link.
C12_ProviderIdentityUnique ==
    /\ [](\A l1 \in links, l2 \in links :
             (l1.provider = l2.provider /\ l1.provider_user_id = l2.provider_user_id)
                => l1.user_id = l2.user_id)
    /\ [][\A u \in UserIds, pr \in SocialProviders : \A id \in ProviderIds(pr) :
             LinkOwner(links, pr, id) # 0 =>
                /\ link_provider_result(u, pr, id) =
                      IF LinkOwner(links, pr, id) = u
                      THEN Result(400, "account is already linked to your account")
                      ELSE Result(400, "account is linked to another user")
                /\ ~LinkProvider(u, pr, id)]_vars

\* a user has just linked an identity; linking it again is refused to this user and
\* to another logged-in user
C12_Witness ==
    /\ resp.op = "link"
    /\ \E l \in links, u \in UserIds :
          /\ l.user_id = resp.user
          /\ l.provider \in SocialProviders
          /\ u # resp.user
          /\ get_current_user(u)
          /\ link_provider_result(u, l.provider, l.provider_user_id)
                = Result(400, "account is linked to another user")
          /\ link_provider_result(resp.user, l.provider, l.provider_user_id)
                = Result(400, "account is already linked to your account")

\* C13: a password-reset request for the email of a user without password digest
\* is answered like the generic case, 200 with the uniform message.
C13_SocialOnlyResetUniform ==
    \A e \in RawEmails :
       LET uid == get_user_by_email(e) IN
       (uid # 0 /\ ~has_password(uid)) =>
          request_password_reset_result(e)
             = Result(200, "If the email exists, a password reset link has been sent")

\* C14: a password-reset request is answered the same, 200 with the uniform
\* message, for an email that no user holds and for the email of a user with a
\* password; the response of the request that stored a reset record is that one.
C14_ResetRequestUniform ==
    \A e1 \in RawEmails, e2 \in RawEmails :
       (/\ get_user_by_email(e1) = 0
        /\ get_user_by_email(e2) # 0
        /\ has_password(get_user_by_email(e2))) =>
          /\ request_password_reset_result(e1) = request_password_reset_result(e2)
          /\ request_password_reset_result(e1).status = 200

\* a reset was requested for a user with a password while another email is unknown
C14_Witness ==
    /\ resp.op = "request_reset"
    /\ has_password(resp.user)
    /\ \E e \in RawEmails : get_user_by_email(e) = 0

\* the user holding the email has an email-verification record of the code
CodeIssued(email, code) ==
    \E i \in 1..Len(verifs) :
       /\ verifs[i].user_id = get_user_by_email(email)
       /\ verifs[i].token_type = "email_verification"
       /\ verifs[i].token_hash = hash_token(generate_otp_code(code))

\* C15: right after a successful resend for an unverified user, VerifyEmail refuses
\* every code issued to that user before the resend (400, already used) and every
\* other code but the new one, which it accepts.
C15_ResendInvalidatesOldCodes ==
    [][\A e \in RawEmails, c \in OtpCodes :
          ResendVerification(e, c) =>
             /\ ~users[get_user_by_email(e)].email_verified
             /\ verify_email_result(e, c)' = OK
             /\ \A old \in OtpCodes :
                   /\ CodeIssued(e, old) =>
                         verify_email_result(e, old)' = Result(400, "Code has already been used")
                   /\ old # c => verify_email_result(e, old)'.status = 400]_vars

\* a resend has just replaced a code the user held: the old one is refused, the new one accepted
C15_Witness ==
    /\ resp.op = "resend"
    /\ verify_email_result(users[resp.user].email, resp.token[2]) = OK
    /\ \E old \in OtpCodes :
          /\ old # resp.token[2]
          /\ CodeIssued(users[resp.user].email, old)
          /\ verify_email_result(users[resp.user].email, old)
                = Result(400, "Code has already been used")

\* the password_reset record of a raw token is there and used
TokenSpent(raw) ==
    /\ VerifBy(hash_token(raw), "password_reset") # 0
    /\ verifs[VerifBy(hash_token(raw), "password_reset")].is_used

\* C16: a successful ConfirmPasswordReset leaves the token's record used, a used
\* record stays used, and a token that is unknown, used or expired is answered 400
\* with no reset step, so the digest, the records and the sessions stay as they
\* were; a replay of a used token is answered "already used".
C16_ResetTokenOnce ==
    [][\A r \in ResetSecrets :
          /\ \A p \in Passwords : ConfirmPasswordReset(r, p) => TokenSpent(r)'
          /\ TokenSpent(r) => TokenSpent(r)'
          /\ TokenSpent(r) =>
                reset_password_result(r) = Result(400, "Token has already been used")
          /\ (\/ VerifBy(hash_token(r), "password_reset") = 0
              \/ TokenSpent(r)
              \/ is_expired(verifs[VerifBy(hash_token(r), "password_reset")])) =>
                /\ reset_password_result(r).status = 400
                /\ \A p \in Passwords : ~ConfirmPasswordReset(r, p)]_vars

\* a reset has just succeeded with a token that is not expired and is now refused
C16_Witness ==
    /\ resp.op = "confirm_reset"
    /\ ~is_expired(verifs[VerifBy(hash_token(resp.presented), "password_reset")])
    /\ reset_password_result(resp.presented) = Result(400, "Token has already been used")

\* C17: a valid unused code of user A presented with the email of another user B
\* is answered 400 "Invalid verification code" and no verification step is taken;
\* a VerifyEmail step uses a record owned by the user holding the email and
\* changes neither the records nor email_verified of any other user.
C17_VerifyEmailOwnerScoped ==
    [][\A eA \in RawEmails, eB \in RawEmails, c \in OtpCodes :
          LET A == get_user_by_email(eA)
              B == get_user_by_email(eB)
          IN
          /\ (A # 0 /\ B # 0 /\ A # B /\ CodeValid(eA, c)) =>
                /\ verify_email_result(eB, c) = Result(400, "Invalid verification code")
                /\ ~VerifyEmail(eB, c)
          /\ VerifyEmail(eB, c) =>
                /\ CodeIssued(eB, c)
                /\ \A i \in 1..Len(verifs) :
                      verifs[i].user_id # B => verifs'[i] = verifs[i]
                /\ \A u \in UserIds :
                      u # B => users'[u].email_verified = users[u].email_verified]_vars

\* a user has just verified while another user's valid code is refused for this user's email
C17_Witness ==
    /\ resp.op = "verify_email"
    /\ \E eA \in RawEmails, c \in OtpCodes :
          /\ get_user_by_email(eA) # 0
          /\ get_user_by_email(eA) # resp.user
          /\ CodeValid(eA, c)
          /\ verify_email_result(users[resp.user].email, c)
                = Result(400, "Invalid verification code")

\* C18: change_password refuses a user without digest ("No password set") and a
\* wrong current password ("Current password is incorrect") and then takes no
\* step, so the digest and the sessions stay as they were; a successful change
\* replaces the digest by one of the new password and leaves every refresh_tokens
\* row of the user revoked.
C18_ChangePassword ==
    [][\A u \in UserIds, p \in Passwords, q \in Passwords :
          /\ ~has_password(u) =>
                /\ change_password_result(u, p).detail
                      = "No password set. You signed up with a social provider."
                /\ change_password_result(u, p) # OK
                /\ ~ChangePassword(u, p, q)
          /\ (has_password(u) /\ ~user_verify_password(u, p)) =>
                /\ change_password_result(u, p).detail = "Current password is incorrect"
                /\ change_password_result(u, p) # OK
                /\ ~ChangePassword(u, p, q)
          /\ ChangePassword(u, p, q) =>
                /\ users'[u].password_hash # users[u].password_hash
                /\ verify_password(q, users'[u].password_hash)
                /\ Len(sessions') = Len(sessions)
                /\ \A i \in 1..Len(sessions) :
                      sessions[i].user_id = u => sessions'[i].is_revoked]_vars

\* a password change has just revoked a live session while a logged-in user
\* without digest is refused
C18_Witness ==
    /\ resp.op = "change_password"
    /\ resp.count >= 1
    /\ CountLive(resp.user) = 0
    /\ \E u \in UserIds, p \in Passwords :
          /\ get_current_user(u)
          /\ change_password_result(u, p).detail
                = "No password set. You signed up with a social provider."

\* the email provider links of a user in table ls
EmailLinks(ls, user_id) == {l \in ls : l.user_id = user_id /\ l.provider = "email"}

\* C19: set_password_for_social_user refuses a user with a digest (400 "User
\* already has a password") and then takes no step; a successful call leaves the
\* user with a digest of the password, with exactly one email link, under the
\* user's own email, with every other link as it was, and Login with that email and
\* password is then not answered "Invalid email or password": it succeeds when
\* the email is verified and asks for the verification otherwise.
C19_SetPasswordForSocialUser ==
    [][\A u \in UserIds, p \in Passwords :
          /\ has_password(u) =>
                /\ set_password_for_social_user_result(u) = Result(400, "User already has a password")
                /\ ~SetPasswordForSocialUser(u, p)
          /\ SetPasswordForSocialUser(u, p) =>
                /\ ~has_password(u)
                /\ verify_password(p, users'[u].password_hash)
                /\ EmailLinks(links', u)
                      = {[user_id |-> u, provider |-> "email", provider_user_id |-> users[u].email]}
                /\ links \subseteq links'
                /\ links' \ links \subseteq EmailLinks(links', u)
                /\ login_result(users[u].email, p)' =
                      IF users[u].email_verified
                      THEN OK
                      ELSE Result(401, "Please verify your email before logging in")]_vars

\* a user created by social sign-in, who never registered, has just logged in with a password
C19_Witness ==
    /\ resp.op = "login"
    /\ \A i \in 1..Len(verifs) : verifs[i].user_id # resp.user
    /\ \E l \in links : l.user_id = resp.user /\ l.provider \in SocialProviders
    /\ EmailLinks(links, resp.user)
          = {[user_id |-> resp.user, provider |-> "email",
              provider_user_id |-> users[resp.user].email]}

\* C20: logout with a token whose row is revoked already is answered 200 and
\* leaves table refresh_tokens exactly as it was; every logout leaves the row of
\* the presented token revoked and every other row as it was.
C20_LogoutIdempotent ==
    [][\A raw \in RefreshSecrets :
          /\ Revoked(raw) => logout_result(raw) = OK
          /\ (Logout(raw) /\ Revoked(raw)) => sessions' = sessions
          /\ Logout(raw) =>
                /\ Revoked(raw)'
                /\ Len(sessions') = Len(sessions)
                /\ \A i \in 1..Len(sessions) :
                      i # SessionByHash(hash_token(raw)) => sessions'[i] = sessions[i]
                /\ UNCHANGED <<users, links, verifs>>]_vars

\* a logout has revoked one of two sessions, and the same logout again is not an error
C20_Witness ==
    /\ resp.op = "logout"
    /\ Revoked(resp.presented)
    /\ logout_result(resp.presented) = OK
    /\ \E i \in 1..Len(sessions) : ~sessions[i].is_revoked

\* C21: logout-all leaves the user without a live refresh_tokens row, reports the
\* number of the user's rows that were live before it (0 when it is called again
\* right after), and leaves every row of every other user as it was.
C21_LogoutAllDevices ==
    [][\A u \in UserIds :
          LogoutAllDevices(u) =>
             /\ CountLive(u)' = 0
             /\ resp'.count = CountLive(u)
             /\ Len(sessions') = Len(sessions)
             /\ \A i \in 1..Len(sessions) :
                   /\ sessions[i].user_id # u => sessions'[i] = sessions[i]
                   /\ sessions[i].user_id = u =>
                         sessions'[i] = [sessions[i] EXCEPT !.is_revoked = TRUE]
             /\ UNCHANGED <<users, links, verifs>>]_vars

\* logout-all has just revoked the one live session of a user while another user keeps one
C21_Witness ==
    /\ resp.op = "logout_all"
    /\ resp.count = 1
    /\ CountLive(resp.user) = 0
    /\ \E u \in UserIds : u # resp.user /\ CountLive(u) = 1

\* C22: a refresh whose token has no row, a revoked row or an expired row, or
\* whose user is inactive, is answered 401 and takes no step: no row is revoked
\* and none is added.  A refresh step is taken only from a live, unexpired row of
\* an active user.
C22_RefreshFailuresChangeNothing ==
    [][\A raw \in RefreshSecrets :
          LET sid == SessionByHash(hash_token(raw)) IN
          /\ (\/ sid = 0
              \/ sessions[sid].is_revoked
              \/ is_expired(sessions[sid])
              \/ ~users[sessions[sid].user_id].is_active) =>
                /\ refresh_tokens_result(raw).status = 401
                /\ ~RefreshTokens(raw)
          /\ RefreshTokens(raw) =>
                /\ sid # 0
                /\ ~sessions[sid].is_revoked
                /\ ~is_expired(sessions[sid])
                /\ users[sessions[sid].user_id].is_active]_vars

\* after a refresh, the consumed token is refused as revoked and its successor
\* is refused because the user is inactive
C22_Witness ==
    /\ Len(sessions) = 2
    /\ sessions[1].user_id = sessions[2].user_id
    /\ refresh_tokens_result(<<"rt", 1>>) = Result(401, "Refresh token has been revoked")
    /\ refresh_tokens_result(<<"rt", 2>>) = Result(401, "User not found or inactive")

\* the refresh of a raw token fails for one of: no row, a revoked row, an expired row
RefreshRefused(raw) ==
    LET sid == SessionByHash(hash_token(raw)) IN
    \/ sid = 0
    \/ sessions[sid].is_revoked
    \/ is_expired(sessions[sid])

\* C23: any two refresh requests refused because the row is missing, revoked or
\* expired get one and the same answer, status and detail.
C23_RefreshUniformError ==
    \A r1 \in RefreshSecrets, r2 \in RefreshSecrets :
       (RefreshRefused(r1) /\ RefreshRefused(r2)) =>
          refresh_tokens_result(r1) = refresh_tokens_result(r2)

\* the code is refused for the email of a user: no record of this user, a used one, an expired one
CodeRefused(email, code) ==
    LET uid == get_user_by_email(email)
        vid == VerifBy(hash_token(generate_otp_code(code)), "email_verification")
    IN
    /\ uid # 0
    /\ \/ vid = 0
       \/ verifs[vid].user_id # uid
       \/ verifs[vid].is_used
       \/ is_expired(verifs[vid])

\* the reset token is refused: no record, a used one, an expired one
TokenRefused(raw) ==
    LET vid == VerifBy(hash_token(raw), "password_reset") IN
    \/ vid = 0
    \/ verifs[vid].is_used
    \/ is_expired(verifs[vid])

\* C24: any two refused email verifications for a user's email get one and the
\* same answer, and so do any two refused password resets, whether the code or
\* token was not found, already used or expired.
C24_VerificationUniformError ==
    /\ \A e \in RawEmails, c1 \in OtpCodes, c2 \in OtpCodes :
          (CodeRefused(e, c1) /\ CodeRefused(e, c2)) =>
             verify_email_result(e, c1) = verify_email_result(e, c2)
    /\ \A r1 \in ResetSecrets, r2 \in ResetSecrets :
          (TokenRefused(r1) /\ TokenRefused(r2)) =>
             reset_password_result(r1) = reset_password_result(r2)

\* no two users hold the same normalized email
UniqueEmails == \A i \in UserIds, j \in UserIds : users[i].email = users[j].email => i = j

\* the result of the write phase of a register or first social sign-in request
commit_result(req) ==
    IF req.op = "register" THEN register_commit_result(req) ELSE social_auth_commit_result(req)

\* the request passed its pre-check and another request has taken its email since
LostRace(req) == req.op \in {"register", "social"} /\ get_user_by_email(req.email) # 0

\* C25: no two users hold one email, and of two register or first sign-in requests
\* that both passed the pre-check for an email the one that writes second is answered
\* with a conflict (a 400 or 409) and leaves no user, link or record behind.
C25_RaceLoserConflict ==
    /\ []UniqueEmails
    /\ [][\A req \in inflight :
             LostRace(req) =>
                /\ commit_result(req).status \in {400, 409}
                /\ (RegisterCommit(req) \/ SocialAuthCommit(req)) =>
                      UNCHANGED <<users, links, sessions, verifs>>]_vars

\* C26: a RefreshTokens request that passed its tests of the row and of the user
\* succeeds whatever another request holding the same token has done meanwhile:
\* its commit revokes the presented row and adds a live successor for the row's
\* user, so two requests with one still-valid token leave two live successors.
C26_ConcurrentRefreshBothSucceed ==
    [][\A req \in inflight : req.op = "refresh" =>
          LET sid == SessionByHash(hash_token(req.raw)) IN
          /\ refresh_commit_result(req) = OK
          /\ RefreshCommit(req) =>
                /\ Len(sessions') = Len(sessions) + 1
                /\ sessions'[sid].is_revoked
                /\ ~sessions'[Len(sessions')].is_revoked
                /\ sessions'[Len(sessions')].user_id = sessions[sid].user_id
                /\ resp'.op = "refresh"
                /\ resp'.via = ""]_vars

\* two requests presented session 1 while it was valid and both committed:
\* sessions 2 and 3 are its two distinct live successors
C26_Witness ==
    /\ Len(sessions) = 3
    /\ sessions[1].is_revoked
    /\ ~sessions[2].is_revoked
    /\ ~sessions[3].is_revoked
    /\ sessions[2].user_id = sessions[1].user_id
    /\ sessions[3].user_id = sessions[1].user_id
    /\ sessions[2].token_hash # sessions[3].token_hash
    /\ resp.op = "refresh"
    /\ resp.presented = <<"rt", 1>>
    /\ inflight = {}

\* C27: no user holds two linked providers of the same provider kind.
C27_OneLinkPerProviderKind ==
    \A l1 \in links, l2 \in links :
       (l1.user_id = l2.user_id /\ l1.provider = l2.provider) => l1 = l2

\* C28: the email provider cannot be unlinked: Unlink of "email" is refused for
\* every user in every state, and a link of kind email, once present, is present
\* after every step.
C28_EmailLinkPermanent ==
    /\ [](\A u \in 1..MaxUsers :
             unlink_provider_result(u, "email") = Result(400, "Cannot unlink email provider"))
    /\ [][\A l \in links : l.provider = "email" => l \in links']_vars

\* an Unlink has just removed a social link of a user who holds an email link
C28_Witness ==
    /\ resp.op = "unlink"
    /\ \E l \in links : l.user_id = resp.user /\ l.provider = "email"
    /\ \A l \in links : l.user_id = resp.user => l.provider = "email"

\* C29: a failed dispatch is not fatal and rolls nothing back: whatever the
\* gateway reports, Register, ResendVerification and RequestPasswordReset answer
\* and write exactly as the request does by itself.
C29_DispatchFailureNotFatal ==
    [][/\ \A e \in RawEmails, p \in Passwords, c \in OtpCodes, g \in BOOLEAN :
             RegisterDispatch(e, p, c, g) => Register(e, p, c)
       /\ \A e \in RawEmails, c \in OtpCodes, g \in BOOLEAN :
             ResendVerificationDispatch(e, c, g) => ResendVerification(e, c)
       /\ \A e \in RawEmails, g \in BOOLEAN :
             RequestPasswordResetDispatch(e, g) => RequestPasswordReset(e)]_vars

\* every dispatch failed, and the verification record of Register and the reset
\* record of RequestPasswordReset are stored and the reset request was answered
C29_Witness ==
    /\ outbox = {}
    /\ Len(verifs) = MaxVerifications
    /\ verifs[1].token_type = "email_verification"
    /\ verifs[Len(verifs)].token_type = "password_reset"
    /\ resp.op = "request_reset"
    /\ resp.via = ""

\* C30: no request creates a session for a user whose is_active is false.
C30_NoSessionForInactiveUser ==
    [][\A i \in 1..Len(sessions') :
          i > Len(sessions) => users'[sessions'[i].user_id].is_active]_vars

\* C31: a successful RefreshTokens sets the presented session revoked and appends
\* one live session of the same user; it deletes no row and leaves every other
\* session, of that user or of another, and every other table as it was.
C31_RefreshFrame ==
    [][\A req \in inflight : (req.op = "refresh" /\ RefreshCommit(req)) =>
          LET sid == SessionByHash(hash_token(req.raw)) IN
          /\ Len(sessions') = Len(sessions) + 1
          /\ sessions'[sid] = [sessions[sid] EXCEPT !.is_revoked = TRUE]
          /\ \A j \in 1..Len(sessions) : j # sid => sessions'[j] = sessions[j]
          /\ sessions'[Len(sessions')] = RefreshToken(sessions[sid].user_id, resp'.token)
          /\ ~sessions'[Len(sessions')].is_revoked
          /\ UNCHANGED <<users, links, verifs>>]_vars

\* a refresh of session 1 has just committed while another live session, of the
\* same user or of another user, was stored: it is still live
C31_Witness ==
    /\ Len(sessions) = 3
    /\ resp.op = "refresh"
    /\ resp.presented = <<"rt", 1>>
    /\ sessions[1].is_revoked
    /\ ~sessions[2].is_revoked
    /\ ~sessions[3].is_revoked

\* the reset token raw is accepted for user u in this state
ResetUsable(raw, u) ==
    /\ reset_password_result(raw) = OK
    /\ verifs[VerifBy(hash_token(raw), "password_reset")].user_id = u

\* C32: after a successful ConfirmPasswordReset or ChangePassword of user u no
\* reset token issued to u before it is accepted any more.
C32_PasswordChangeVoidsResetTokens ==
    [][/\ \A u \in 1..MaxUsers, p \in Passwords, q \in Passwords :
             ChangePassword(u, p, q) => \A r \in ResetSecrets : ~ResetUsable(r, u)'
       /\ \A s \in ResetSecrets, p \in Passwords :
             ConfirmPasswordReset(s, p) =>
                \A r \in ResetSecrets :
                   ~ResetUsable(r, verifs[VerifBy(hash_token(s), "password_reset")].user_id)']_vars

\* C33: when a ConfirmPasswordReset of a user commits while a RefreshTokens on one
\* of the user's sessions is between its tests and its writes, the user holds no
\* live session once the refresh has committed too.
C33_ResetRaceLeavesNoSession ==
    [][\A req \in inflight :
          LET sid == SessionByHash(hash_token(req.raw)) IN
          (/\ req.op = "refresh"
           /\ resp.op = "confirm_reset"
           /\ resp.user = sessions[sid].user_id
           /\ sessions[sid].is_revoked
           /\ RefreshCommit(req)) => CountLive(sessions[sid].user_id)' = 0]_vars

\* C34: two interleaved Unlink requests of one social-only user for its two only
\* providers cannot both succeed: no user is left with no linked provider.
C34_NeverZeroProviders ==
    \A u \in UserIds : get_user_social_accounts(u) # {}

\* C35: issuing a verification code succeeds when a record with the digest of
\* the same code is already stored, for another user or as an older record of
\* the same user.
C35_SameCodeIssuable ==
    \A e \in RawEmails, c \in OtpCodes :
       ~VerifHashFree(hash_token(generate_otp_code(c))) =>
          /\ get_user_by_email(e) = 0 => register_result(e, c) = OK
          /\ (get_user_by_email(e) # 0 /\ ~users[get_user_by_email(e)].email_verified) =>
                resend_verification_email_result(e, c).status = 200

\* C36: a social sign-in whose provider reports email_verified = false never
\* links its identity to a user found by email and never gets that user's session.
C36_UnverifiedEmailNeverLinks ==
    [][\A pr \in SocialProviders, e \in RawEmails :
          \A id \in ProviderIds(pr) :
             (get_user_by_email(e) # 0 /\ LinkOwner(links, pr, id) = 0) =>
                ~SocialAuth(pr, id, e, FALSE)]_vars

\* the unused email-verification records of user u
UnusedCodes(u) ==
    {i \in 1..Len(verifs) : /\ verifs[i].user_id = u
                            /\ verifs[i].token_type = "email_verification"
                            /\ ~verifs[i].is_used}

\* C37: with requests executed one after the other, every user has at most one
\* unused email-verification record in every state.
C37_OneUnusedCodePerUser ==
    \A u \in UserIds : Cardinality(UnusedCodes(u)) <= 1

\* a ResendVerification has just issued a second code to a user: the first
\* record is used, the second is the user's only unused one
C37_Witness ==
    /\ resp.op = "resend"
    /\ Len(verifs) = 2
    /\ verifs[1].user_id = resp.user
    /\ verifs[1].token_type = "email_verification"
    /\ verifs[1].is_used
    /\ UnusedCodes(resp.user) = {2}

\* C38: in every state every user with a password digest has a link of the
\* email provider.
C38_PasswordImpliesEmailLink ==
    \A u \in UserIds : has_password(u) => EmailLinks(links, u) # {}

\* a user created by social sign-in has set a password and then unlinked a
\* social provider: the email link is there
C38_Witness ==
    /\ resp.op = "unlink"
    /\ has_password(resp.user)
    /\ \A i \in 1..Len(verifs) : verifs[i].user_id # resp.user
    /\ EmailLinks(links, resp.user) # {}

\* C39: no step removes a session or a verification record or changes whose it
\* is; a revoked session stays revoked, a used record stays used, and a verified
\* email stays verified.
C39_LedgerIrreversible ==
    [][/\ Len(sessions') >= Len(sessions)
       /\ \A i \in 1..Len(sessions) :
             /\ sessions'[i].token_hash = sessions[i].token_hash
             /\ sessions'[i].user_id = sessions[i].user_id
             /\ sessions[i].is_revoked => sessions'[i].is_revoked
       /\ Len(verifs') >= Len(verifs)
       /\ \A i \in 1..Len(verifs) :
             /\ verifs'[i].token_hash = verifs[i].token_hash
             /\ verifs'[i].user_id = verifs[i].user_id
             /\ verifs[i].is_used => verifs'[i].is_used
       /\ Len(users') >= Len(users)
       /\ \A u \in UserIds : users[u].email_verified => users'[u].email_verified]_vars

\* a login after a logout: the first session is still stored and revoked, the
\* code spent by VerifyEmail is still stored and used, the email is verified
C39_Witness ==
    /\ resp.op = "login"
    /\ Len(sessions) = 2
    /\ sessions[1].is_revoked
    /\ sessions[1].user_id = resp.user
    /\ users[resp.user].email_verified
    /\ \E i \in 1..Len(verifs) : verifs[i].user_id = resp.user /\ verifs[i].is_used

====
